---- MODULE Spec2Model ----
(***************************************************************************)
(* Model of the LinkML import resolver                                     *)
(* (service/src/parser/import_resolver.rs) and of the instance resolver    *)
(* (service/src/validator/instance_resolver.rs).                           *)
(*                                                                         *)
(* A resolver owns a cache of loaded schemas.  resolve_imports_async       *)
(* clones the schema it is given, walks its import list in order, loads    *)
(* every import not yet visited (cache first, then the search paths) and   *)
(* merges it into the clone with merge_schema.                             *)
(*                                                                         *)
(* Ordered maps (IndexMap) are sequences of [k, v] entries in insertion    *)
(* order.  Option<T> is a sequence of length 0 (None) or 1 (Some).         *)
(***************************************************************************)
EXTENDS Naturals, Sequences, FiniteSets

VARIABLES
    files,      \* what the search paths hold: import reference -> file
    root,       \* the schema handed to resolve_imports_async
    cache,      \* ImportResolver.cache: import reference -> loaded schema
    pc,         \* "idle" | "loop" | "done": position in resolve_imports_async
    merged,     \* the clone under construction
    visited,    \* the visited set of this call
    todo,       \* the rest of imports_to_process
    depth,      \* the depth argument of resolve_imports_recursive
    result,     \* what the call returned
    last,       \* the last loop iteration: what was imported and how it ended
    calls,      \* number of resolve_imports_async calls started
    ifiles,     \* what schema_base_dir holds: path -> instance file
    ischema,    \* the schema handed to the instance resolver
    islot,      \* the slot handed to the instance resolver
    instance_cache, \* InstanceResolver.instance_cache: cache key -> data
    icall,      \* the last call on the instance resolver and what it returned
    tasks,      \* the concurrent loads: task -> its position and locals
    parsed,     \* the (cache, key) pairs whose read and parse completed
    input,      \* the arguments of the operation applied last
    output,     \* what that operation returned
    effects     \* the calls it made on its collaborators, in order

import_vars ==
    <<files, root, cache, pc, merged, visited, todo, depth, result, last, calls>>
inst_vars == <<ifiles, ischema, islot, instance_cache, icall>>
task_vars == <<tasks, parsed>>
call_vars == <<input, output, effects>>
vars == <<import_vars, inst_vars, task_vars, call_vars, call_vars>>

----------------------------------------------------------------------------
(* Bounds of the explored inputs *)

MaxDecls == 2
MaxImports == 2
MaxCalls == 2

(* ImportResolver.max_depth as set by both constructors *)
max_depth == 10

----------------------------------------------------------------------------
(* Option and ordered-map helpers *)

None == <<>>
Some(x) == <<x>>

Range(s) == {s[i] : i \in 1..Len(s)}

Keys(m) == {m[i].k : i \in 1..Len(m)}

contains_key(m, key) == \E i \in 1..Len(m) : m[i].k = key

get(m, key) == (CHOOSE e \in Range(m) : e.k = key).v

Entry(key, val) == [k |-> key, v |-> val]

\* faulty variant: a new key goes to the front
insert_front(m, key, val) ==
    IF \E i \in 1..Len(m) : m[i].k = key
    THEN [i \in 1..Len(m) |-> IF m[i].k = key THEN [k |-> key, v |-> val] ELSE m[i]]
    ELSE <<[k |-> key, v |-> val]>> \o m

\* IndexMap::insert: replaces the value in place when the key is present,
\* appends otherwise
insert(m, key, val) ==
    IF contains_key(m, key)
    THEN [i \in 1..Len(m) |-> IF m[i].k = key THEN Entry(key, val) ELSE m[i]]
    ELSE Append(m, Entry(key, val))

----------------------------------------------------------------------------
(* Errors *)

\* LinkMLError::import(target, message)
ImportError(target, cause, kind, name) ==
    [type |-> "ImportError", target |-> target, cause |-> cause,
     kind |-> kind, name |-> name]

\* LinkMLError::parse(message)
ParseError(path) ==
    [type |-> "ParseError", target |-> path, cause |-> "parse",
     kind |-> "", name |-> ""]

NoError == None

----------------------------------------------------------------------------
(* merge_schema *)

\* faulty variant: the imported prefix replaces the target's
RECURSIVE merge_prefixes_overwrite(_, _)
merge_prefixes_overwrite(tmap, smap) ==
    IF smap = <<>> THEN tmap
    ELSE merge_prefixes_overwrite(insert(tmap, Head(smap).k, Head(smap).v), Tail(smap))

\* for (prefix, def) in &source.prefixes { if !contains_key { insert } }
RECURSIVE merge_prefixes(_, _)
merge_prefixes(tmap, smap) ==
    IF smap = <<>> THEN tmap
    ELSE LET e == Head(smap) IN
         IF ~contains_key(tmap, e.k)
         THEN merge_prefixes(insert(tmap, e.k, e.v), Tail(smap))
         ELSE merge_prefixes(tmap, Tail(smap))

\* faulty variant: no contains_key check, the imported entry replaces the target's
RECURSIVE merge_entries_overwrite(_, _)
merge_entries_overwrite(tmap, smap) ==
    IF smap = <<>> THEN [map |-> tmap, dup |-> None]
    ELSE merge_entries_overwrite(insert(tmap, Head(smap).k, Head(smap).v), Tail(smap))

\* for (name, x) in &source.xs { if contains_key { return Err } insert }
\* Returns the map as it stands when the loop ends or returns early, and the
\* colliding name if it returned early.
RECURSIVE merge_entries(_, _)
merge_entries(tmap, smap) ==
    IF smap = <<>> THEN [map |-> tmap, dup |-> None]
    ELSE LET e == Head(smap) IN
         IF contains_key(tmap, e.k)
         THEN [map |-> tmap, dup |-> Some(e.k)]
         ELSE merge_entries(insert(tmap, e.k, e.v), Tail(smap))

\* faulty variant: the function returns after the classes
merge_declarations_classes_only(target, source) ==
    LET c == merge_entries(target.classes, source.classes)
        t1 == [target EXCEPT !.classes = c.map]
    IN  IF c.dup # None
        THEN [target |-> t1,
              err |-> Some(ImportError(target.name, "collision", "Class", c.dup[1]))]
        ELSE [target |-> t1, err |-> NoError]

\* the four declaration loops of merge_schema, each returning early on a
\* name the target already holds.  Returns [target, err]: the target as the
\* function leaves it, and the error it returned (None for Ok(())).
merge_declarations(target, source) ==
    LET c  == merge_entries(target.classes, source.classes)
        s  == merge_entries(target.slots, source.slots)
        t  == merge_entries(target.types, source.types)
        e  == merge_entries(target.enums, source.enums)
        t1 == [target EXCEPT !.classes = c.map]
        t2 == [t1 EXCEPT !.slots = s.map]
        t3 == [t2 EXCEPT !.types = t.map]
        t4 == [t3 EXCEPT !.enums = e.map]
    IN  IF c.dup # None
        THEN [target |-> t1,
              err |-> Some(ImportError(target.name, "collision", "Class", c.dup[1]))]
        ELSE IF s.dup # None
        THEN [target |-> t2,
              err |-> Some(ImportError(target.name, "collision", "Slot", s.dup[1]))]
        ELSE IF t.dup # None
        THEN [target |-> t3,
              err |-> Some(ImportError(target.name, "collision", "Type", t.dup[1]))]
        ELSE IF e.dup # None
        THEN [target |-> t4,
              err |-> Some(ImportError(target.name, "collision", "Enum", e.dup[1]))]
        ELSE [target |-> t4, err |-> NoError]

\* faulty variant: a target without description takes the import's
merge_schema_fill_description(target, source) ==
    merge_declarations(
        [target EXCEPT
            !.prefixes = merge_prefixes(target.prefixes, source.prefixes),
            !.description = IF target.description = None
                            THEN source.description ELSE target.description],
        source)

\* merge_schema: the prefixes first, then the declarations
merge_schema(target, source) ==
    merge_declarations(
        [target EXCEPT !.prefixes = merge_prefixes(target.prefixes, source.prefixes)],
        source)

----------------------------------------------------------------------------
(* load_import and what it reads *)

Missing == [kind |-> "missing"]
Unparsable == [kind |-> "unparsable"]
SchemaFile(s) == [kind |-> "schema", schema |-> s]

FileAt(import) == IF import \in DOMAIN files THEN files[import] ELSE Missing

\* find_import_file: the first candidate path under the search paths that
\* exists, or the "Import file not found" error
find_import_file(import) ==
    IF FileAt(import).kind = "missing"
    THEN [path |-> None,
          err |-> Some(ImportError(import, "not_found", "", ""))]
    ELSE [path |-> Some(import), err |-> NoError]

\* load_schema_file: the parser's result for the file at the path
load_schema_file(path) ==
    IF FileAt(path).kind = "schema"
    THEN [schema |-> Some(FileAt(path).schema), err |-> NoError]
    ELSE [schema |-> None, err |-> Some(ParseError(path))]

cache_insert(c, key, schema) ==
    [r \in DOMAIN c \cup {key} |-> IF r = key THEN schema ELSE c[r]]

\* Returns [schema, err, cache]: Ok(schema) or Err(err), and the cache as
\* load_import leaves it.
load_import(c, import) ==
    IF import \in DOMAIN c
    THEN [schema |-> Some(c[import]), err |-> NoError, cache |-> c]
    ELSE LET f == find_import_file(import) IN
         IF f.err # NoError
         THEN [schema |-> None, err |-> f.err, cache |-> c]
         ELSE LET l == load_schema_file(f.path[1]) IN
              IF l.err # NoError
              THEN [schema |-> None, err |-> l.err, cache |-> c]
              ELSE [schema |-> l.schema, err |-> NoError,
                    cache |-> cache_insert(c, import, l.schema[1])]

----------------------------------------------------------------------------
(* resolve_imports_async / resolve_imports_recursive *)

Pending == [tag |-> "Pending", schema |-> None, error |-> None]
Ok(s) == [tag |-> "Ok", schema |-> Some(s), error |-> None]
Err(e) == [tag |-> "Err", schema |-> None, error |-> Some(e)]

DepthError == ImportError("imports", "depth", "", "")

Step(outcome, import, before, source) ==
    [outcome |-> outcome, import |-> import, before |-> before, source |-> source]

\* faulty variant: the last import of the list is left out
imports_to_process_skip_last(schema) ==
    SubSeq(schema.imports, 1, Len(schema.imports) - 1)

\* let imports_to_process = schema.imports.clone()
imports_to_process(schema) == schema.imports

\* faulty variant: the visited set is not consulted
already_processed_never(import, seen) == FALSE

\* if visited.contains(&import) { continue }
already_processed(import, seen) == import \in seen

\* the call: clone the schema, empty visited set, depth 0, then the depth
\* check and the copy of the import list
resolve_imports_async ==
    /\ pc \in {"idle", "done"}
    /\ calls < MaxCalls
    /\ calls' = calls + 1
    /\ merged' = root
    /\ visited' = {}
    /\ depth' = 0
    /\ last' = Step("start", "", root, None)
    /\ IF depth' > max_depth
       THEN /\ result' = Err(DepthError)
            /\ todo' = <<>>
            /\ pc' = "done"
       ELSE /\ result' = Pending
            /\ todo' = imports_to_process(root)
            /\ pc' = "loop"
    /\ UNCHANGED <<inst_vars, task_vars, call_vars, files, root, cache>>

\* loop iteration: the import was already visited
SkipVisited ==
    /\ pc = "loop" /\ todo # <<>>
    /\ already_processed(Head(todo), visited)
    /\ todo' = Tail(todo)
    /\ last' = Step("skipped", Head(todo), merged, None)
    /\ UNCHANGED <<inst_vars, task_vars, call_vars, files, root, cache, pc, merged, visited, depth, result, calls>>

\* faulty variant: a failed load is passed over and the loop goes on
LoadFails_continue ==
    /\ pc = "loop" /\ todo # <<>>
    /\ ~already_processed(Head(todo), visited)
    /\ load_import(cache, Head(todo)).err # NoError
    /\ visited' = visited \cup {Head(todo)}
    /\ todo' = Tail(todo)
    /\ last' = Step("load_failed", Head(todo), merged, None)
    /\ UNCHANGED <<inst_vars, task_vars, call_vars, files, root, cache, pc, merged, depth,
                   result, calls>>

\* loop iteration: load_import fails, the error propagates with `?`
LoadFails ==
    /\ pc = "loop" /\ todo # <<>>
    /\ ~already_processed(Head(todo), visited)
    /\ LET l == load_import(cache, Head(todo)) IN
         /\ l.err # NoError
         /\ visited' = visited \cup {Head(todo)}
         /\ cache' = l.cache
         /\ result' = Err(l.err[1])
         /\ last' = Step("load_failed", Head(todo), merged, None)
    /\ pc' = "done"
    /\ UNCHANGED <<inst_vars, task_vars, call_vars, files, root, merged, todo, depth, calls>>

\* loop iteration: the import loads and merge_schema returns Ok(())
MergeOk ==
    /\ pc = "loop" /\ todo # <<>>
    /\ ~already_processed(Head(todo), visited)
    /\ LET l == load_import(cache, Head(todo)) IN
         /\ l.err = NoError
         /\ LET m == merge_schema(merged, l.schema[1]) IN
              /\ m.err = NoError
              /\ merged' = m.target
              /\ last' = Step("merged", Head(todo), merged, l.schema)
         /\ visited' = visited \cup {Head(todo)}
         /\ cache' = l.cache
    /\ todo' = Tail(todo)
    /\ UNCHANGED <<inst_vars, task_vars, call_vars, files, root, pc, depth, result, calls>>

\* loop iteration: the import loads and merge_schema returns an error, which
\* propagates with `?`
MergeFails ==
    /\ pc = "loop" /\ todo # <<>>
    /\ ~already_processed(Head(todo), visited)
    /\ LET l == load_import(cache, Head(todo)) IN
         /\ l.err = NoError
         /\ LET m == merge_schema(merged, l.schema[1]) IN
              /\ m.err # NoError
              /\ merged' = m.target
              /\ result' = Err(m.err[1])
              /\ last' = Step("collision", Head(todo), merged, l.schema)
         /\ visited' = visited \cup {Head(todo)}
         /\ cache' = l.cache
    /\ pc' = "done"
    /\ UNCHANGED <<inst_vars, task_vars, call_vars, files, root, todo, depth, calls>>

\* all imports processed: Ok(()) from the recursive function, Ok(merged)
\* from resolve_imports_async
Return ==
    /\ pc = "loop" /\ todo = <<>>
    /\ result' = Ok(merged)
    /\ pc' = "done"
    /\ UNCHANGED <<inst_vars, task_vars, call_vars, files, root, cache, merged, visited, todo, depth, last, calls>>

Next ==
    \/ resolve_imports_async
    \/ SkipVisited
    \/ LoadFails
    \/ MergeOk
    \/ MergeFails
    \/ Return

----------------------------------------------------------------------------
(* Schemas and file systems the resolver is run on *)

DeclKinds == {"classes", "slots", "types", "enums", "subsets"}
Names == {"Foo", "Bar"}
Bodies == {"d1", "d2"}
PrefixKeys == {"p", "q"}
PrefixUris == {"u1", "u2"}

\* the ordered maps with at most n entries, keys in ks (each at most once),
\* values in vs
OrderedMaps(ks, vs, n) ==
    UNION {{m \in [1..l -> [k : ks, v : vs]] :
                \A i, j \in 1..l : i # j => m[i].k # m[j].k} : l \in 0..n}

\* the import lists with 1..n entries over refs
ImportLists(refs, n) == UNION {[1..l -> refs] : l \in 1..n}

\* SchemaDefinition.  tag names the schema; full says whether the optional
\* metadata is set.
Schema(tag, full, imports, prefixes, settings, decls) ==
    [id |-> <<"id", tag>>,
     name |-> tag,
     title |-> IF full THEN Some(<<"title", tag>>) ELSE None,
     description |-> IF full THEN Some(<<"description", tag>>) ELSE None,
     version |-> IF full THEN Some(<<"version", tag>>) ELSE None,
     license |-> IF full THEN Some(<<"license", tag>>) ELSE None,
     default_prefix |-> IF full THEN Some(<<"default_prefix", tag>>) ELSE None,
     default_range |-> IF full THEN Some(<<"default_range", tag>>) ELSE None,
     imports |-> imports,
     prefixes |-> prefixes,
     settings |-> settings,
     classes |-> decls["classes"],
     slots |-> decls["slots"],
     types |-> decls["types"],
     enums |-> decls["enums"],
     subsets |-> decls["subsets"]]

NoDecls == [k \in DeclKinds |-> <<>>]
OneKind(kind, m) == [k \in DeclKinds |-> IF k = kind THEN m ELSE <<>>]
SameInKinds(kinds, m) == [k \in DeclKinds |-> IF k \in kinds THEN m ELSE <<>>]

Scenario(r, fs) == [root |-> r, files |-> fs]

\* a root and two imports that declare in one kind
DeclScenarios ==
    {Scenario(
        Schema("R", TRUE, il, <<>>, None, OneKind(kind, rm)),
        [x \in {"a", "b"} |->
            IF x = "a"
            THEN SchemaFile(Schema("A", TRUE, <<>>, <<>>, None, OneKind(kind, am)))
            ELSE SchemaFile(Schema("B", TRUE, <<>>, <<>>, None, OneKind(kind, bm)))]) :
        kind \in DeclKinds,
        il \in ImportLists({"a", "b"}, MaxImports),
        rm \in OrderedMaps(Names, Bodies, 1),
        am \in OrderedMaps(Names, Bodies, MaxDecls),
        bm \in OrderedMaps(Names, Bodies, 1)}

\* a root that declares Foo in some kinds and one import that declares Bar
\* and then Foo in some kinds
MixedScenarios ==
    {Scenario(
        Schema("R", TRUE, <<"a">>, <<>>, None,
               SameInKinds(rk, <<Entry("Foo", "d1")>>)),
        [x \in {"a"} |->
            SchemaFile(Schema("A", TRUE, <<>>, <<>>, None,
                SameInKinds(ak, <<Entry("Bar", "d1"), Entry("Foo", d)>>)))]) :
        rk \in SUBSET DeclKinds, ak \in SUBSET DeclKinds, d \in Bodies}

\* a root and two imports that declare prefixes; the root with or without
\* its optional metadata
PrefixScenarios ==
    {Scenario(
        Schema("R", full, il, rm, None, NoDecls),
        [x \in {"a", "b"} |->
            IF x = "a"
            THEN SchemaFile(Schema("A", TRUE, <<>>, am, None, NoDecls))
            ELSE SchemaFile(Schema("B", TRUE, <<>>, bm, None, NoDecls))]) :
        full \in BOOLEAN,
        il \in ImportLists({"a", "b"}, MaxImports),
        rm \in OrderedMaps(PrefixKeys, PrefixUris, 1),
        am \in OrderedMaps(PrefixKeys, PrefixUris, MaxDecls),
        bm \in OrderedMaps(PrefixKeys, PrefixUris, 1)}

SettingKeys == {"id_pattern", "code_pattern"}
Patterns == {"x1", "x2"}
SettingsPool(n) == {None} \cup {Some(m) : m \in OrderedMaps(SettingKeys, Patterns, n)}

\* a root and two imports that declare pattern settings
SettingsScenarios ==
    {Scenario(
        Schema("R", TRUE, il, <<>>, rs, NoDecls),
        [x \in {"a", "b"} |->
            IF x = "a"
            THEN SchemaFile(Schema("A", TRUE, <<>>, <<>>, as, NoDecls))
            ELSE SchemaFile(Schema("B", TRUE, <<>>, <<>>, bs, NoDecls))]) :
        il \in ImportLists({"a", "b"}, MaxImports),
        rs \in SettingsPool(1),
        as \in SettingsPool(MaxDecls),
        bs \in SettingsPool(1)}

\* import graphs over two files, each declaring a class and a slot of its
\* own; a file may be missing or unparsable; the root is a schema of its own
\* or the content of one of the files
OwnDecls(tag) ==
    [k \in DeclKinds |->
        IF k = "classes" THEN <<Entry(tag, "d1")>>
        ELSE IF k = "slots" THEN <<Entry(tag, "d2")>>
        ELSE <<>>]

GraphFile(tag) ==
    {Missing, Unparsable} \cup
    {SchemaFile(Schema(tag, TRUE, il, <<>>, None, OwnDecls(tag))) :
        il \in {<<>>} \cup ImportLists({"a", "b"}, MaxImports)}

GraphFileSystems ==
    {[x \in {"a", "b"} |-> IF x = "a" THEN fa ELSE fb] :
        fa \in GraphFile("A"), fb \in GraphFile("B")}

GraphScenarios ==
    {Scenario(Schema("R", TRUE, il, <<>>, None, OwnDecls("R")), fs) :
        il \in ImportLists({"a", "b"}, MaxImports), fs \in GraphFileSystems}

\* the same graphs with the content of one of the files as the root
FileRootScenarios ==
    {Scenario(sc.fs[sc.x].schema, sc.fs) :
        sc \in {t \in [x : {"a", "b"}, fs : GraphFileSystems] :
                    t.fs[t.x].kind = "schema"}}

\* chains a1 -> a2 -> ... -> an of one import each; a1 is the root
ChainRefs == <<"a1", "a2", "a3", "a4", "a5", "a6", "a7", "a8", "a9", "a10",
               "a11", "a12">>
ChainSchema(i, n) ==
    Schema(ChainRefs[i], TRUE,
           IF i < n THEN <<ChainRefs[i + 1]>> ELSE <<>>,
           <<>>, None, OwnDecls(ChainRefs[i]))

ChainScenarios ==
    {Scenario(ChainSchema(1, n),
              [x \in {ChainRefs[i] : i \in 2..n} |->
                  SchemaFile(ChainSchema(CHOOSE i \in 2..n : ChainRefs[i] = x, n))]) :
        n \in 1..Len(ChainRefs)}

Scenarios(family) ==
    CASE family = "decl" -> DeclScenarios
      [] family = "mixed" -> MixedScenarios
      [] family = "prefix" -> PrefixScenarios
      [] family = "settings" -> SettingsScenarios
      [] family = "graph" -> GraphScenarios
      [] family = "fileroot" -> FileRootScenarios
      [] family = "chain" -> ChainScenarios

Families == {"decl", "mixed", "prefix", "settings", "graph", "fileroot", "chain"}

\* no call on the instance resolver
NoInstanceCall ==
    /\ ischema = <<>>
    /\ islot = <<>>
    /\ icall = <<>>

\* the instance resolver is not part of this specification
NoInstanceResolver ==
    /\ ifiles = <<>>
    /\ instance_cache = <<>>
    /\ NoInstanceCall

NoTasks ==
    /\ tasks = <<>>
    /\ parsed = {}

\* no operation has been applied
NoCall ==
    /\ input = <<>>
    /\ output = <<>>
    /\ effects = <<>>

Init ==
    /\ NoInstanceResolver
    /\ NoTasks
    /\ NoCall
    /\ \E family \in Families :
         \E sc \in Scenarios(family) :
            /\ root = sc.root
            /\ files = sc.files
    /\ cache = <<>>
    /\ pc = "idle"
    /\ merged = root
    /\ visited = {}
    /\ todo = <<>>
    /\ depth = 0
    /\ result = Pending
    /\ last = Step("none", "", root, None)
    /\ calls = 0

Spec == Init /\ [][Next]_vars

----------------------------------------------------------------------------
(* Vocabulary of the properties *)

\* the declaration kinds merge_schema walks, in its order
MergeKinds == <<"classes", "slots", "types", "enums">>
KindLabel(kind) ==
    CASE kind = "classes" -> "Class"
      [] kind = "slots" -> "Slot"
      [] kind = "types" -> "Type"
      [] kind = "enums" -> "Enum"

MetaFields == {"id", "name", "title", "description", "version", "license",
               "default_prefix", "default_range"}

\* the last loop iteration called merge_schema(last.before, last.source[1])
MergeAttempted == last.outcome \in {"merged", "collision"}

\* names declared in the same kind by both schemas
Colliding(t, s, kind) == Keys(t[kind]) \cap Keys(s[kind])
\* those of them whose two definitions differ / are structurally equal
Differing(t, s, kind) ==
    {n \in Colliding(t, s, kind) : get(t[kind], n) # get(s[kind], n)}
Equal(t, s, kind) ==
    {n \in Colliding(t, s, kind) : get(t[kind], n) = get(s[kind], n)}

Finished == pc = "done" /\ result.tag # "Pending"
Succeeded == pc = "done" /\ result.tag = "Ok"
Failed == pc = "done" /\ result.tag = "Err"

----------------------------------------------------------------------------
(* C1: when the imported schema declares a class, slot, type or enum whose *)
(* name the schema under construction already holds with a different body, *)
(* the call ends with an import error that names a colliding name of that  *)
(* kind, and returns no schema.                                            *)
C1_CollisionIsReported ==
    (/\ MergeAttempted
     /\ \E i \in 1..Len(MergeKinds) :
              Differing(last.before, last.source[1], MergeKinds[i]) # {})
    => /\ Failed
       /\ result.schema = None
       /\ result.error[1].type = "ImportError"
       /\ result.error[1].cause = "collision"
       /\ \E i \in 1..Len(MergeKinds) :
             /\ result.error[1].kind = KindLabel(MergeKinds[i])
             /\ result.error[1].name \in
                    Colliding(last.before, last.source[1], MergeKinds[i])

\* a collision with a name that came from an earlier import, not the root
C1_Witness ==
    /\ last.outcome = "collision"
    /\ Failed
    /\ \E i \in 1..Len(MergeKinds) :
          \E n \in Differing(last.before, last.source[1], MergeKinds[i]) :
             /\ ~contains_key(root[MergeKinds[i]], n)
             /\ result.error[1].name = n

(* C2: when every name the imported schema shares with the schema under    *)
(* construction has a structurally equal definition, the merge succeeds    *)
(* and leaves the existing entries as they were.                           *)
C2_EqualCollisionIsNoOp ==
    (/\ MergeAttempted
     /\ \A i \in 1..Len(MergeKinds) :
           Differing(last.before, last.source[1], MergeKinds[i]) = {}
     /\ \E i \in 1..Len(MergeKinds) :
           Equal(last.before, last.source[1], MergeKinds[i]) # {})
    => /\ last.outcome = "merged"
       /\ result.tag # "Err"
       /\ \A i \in 1..Len(MergeKinds) :
             \A n \in Keys(last.before[MergeKinds[i]]) :
                /\ contains_key(merged[MergeKinds[i]], n)
                /\ get(merged[MergeKinds[i]], n) = get(last.before[MergeKinds[i]], n)

(* C3: merging a schema into itself succeeds and leaves it unchanged.      *)
C3_SelfMergeIdempotent ==
    (MergeAttempted /\ last.source[1] = last.before)
    => /\ last.outcome = "merged"
       /\ merged = last.before

----------------------------------------------------------------------------
(* The import graph of the root *)

ImportsOf(r) ==
    IF FileAt(r).kind = "schema" THEN Range(FileAt(r).schema.imports) ELSE {}

RECURSIVE ReachFrom(_)
ReachFrom(S) ==
    LET T == S \cup UNION {ImportsOf(r) : r \in S}
    IN  IF T = S THEN S ELSE ReachFrom(T)

\* the references reachable from the root through imports
Reachable == ReachFrom(Range(root.imports))

AllResolve == \A r \in Reachable : FileAt(r).kind = "schema"

\* no reference imports itself, directly or not, and none holds the root
Acyclic ==
    \A r \in Reachable :
        /\ r \notin ReachFrom(ImportsOf(r))
        /\ FileAt(r).kind = "schema" => FileAt(r).schema.name # root.name

\* number of import edges on the longest path from the root, up to fuel
RECURSIVE Height(_, _)
Height(S, fuel) ==
    IF S = {} \/ fuel = 0 THEN 0
    ELSE 1 + Height(UNION {ImportsOf(r) : r \in S}, fuel - 1)

ImportDepth == Height(Range(root.imports), max_depth + 2)

\* the schemas of the closure declare pairwise distinct names
DistinctNames ==
    \A i \in 1..Len(MergeKinds) :
        /\ \A r \in Reachable :
              FileAt(r).kind = "schema" =>
                  Colliding(root, FileAt(r).schema, MergeKinds[i]) = {}
        /\ \A r1, r2 \in Reachable :
              (r1 # r2 /\ FileAt(r1).kind = "schema" /\ FileAt(r2).kind = "schema")
                  => Colliding(FileAt(r1).schema, FileAt(r2).schema,
                               MergeKinds[i]) = {}

\* the entries of a declaration map, as a set
Entries(m) == Range(m)

(* C4: on an acyclic import graph of depth at most max_depth whose schemas *)
(* declare pairwise distinct names, the call succeeds and every            *)
(* declaration map of the result holds exactly the entries of the root and *)
(* of all schemas reachable through imports, indirect ones included.       *)
C4_TransitiveUnion ==
    (Finished /\ AllResolve /\ Acyclic /\ ImportDepth <= max_depth /\ DistinctNames)
    => /\ Succeeded
       /\ \A i \in 1..Len(MergeKinds) :
             Entries(result.schema[1][MergeKinds[i]]) =
                 Entries(root[MergeKinds[i]]) \cup
                 UNION {Entries(FileAt(r).schema[MergeKinds[i]]) : r \in Reachable}

(* C5: after a successful call the merged classes, slots, types and enums  *)
(* hold every declaration of the root and of each schema named in the      *)
(* root's import list, each with its original definition.                  *)
C5_DirectImportsMerged ==
    Succeeded =>
        \A i \in 1..Len(MergeKinds) :
            /\ \A e \in Entries(root[MergeKinds[i]]) :
                  /\ contains_key(result.schema[1][MergeKinds[i]], e.k)
                  /\ get(result.schema[1][MergeKinds[i]], e.k) = e.v
            /\ \A r \in Range(root.imports) :
                  /\ FileAt(r).kind = "schema"
                  /\ \A e \in Entries(FileAt(r).schema[MergeKinds[i]]) :
                        /\ contains_key(result.schema[1][MergeKinds[i]], e.k)
                        /\ get(result.schema[1][MergeKinds[i]], e.k) = e.v

\* a success with two different imports that both declare something
C5_Witness ==
    /\ Succeeded
    /\ \E r1, r2 \in Range(root.imports) :
          /\ r1 # r2
          /\ \E i \in 1..Len(MergeKinds) :
                /\ root[MergeKinds[i]] # <<>>
                /\ FileAt(r1).schema[MergeKinds[i]] # <<>>
                /\ FileAt(r2).schema[MergeKinds[i]] # <<>>

(* C6: a root whose chain of transitive imports is longer than max_depth   *)
(* makes the call fail with the maximum-import-depth error.                *)
C6_DepthExceeded ==
    (Finished /\ AllResolve /\ Acyclic /\ ImportDepth > max_depth)
    => /\ Failed
       /\ result.error[1] = DepthError

\* schema at reference a is the root, imports exactly b, and b imports a back
MutualImport(a, b) ==
    /\ a # b
    /\ FileAt(a) = SchemaFile(root)
    /\ root.imports = <<b>>
    /\ FileAt(b).kind = "schema"
    /\ a \in Range(FileAt(b).schema.imports)
    /\ \A i \in 1..Len(MergeKinds) :
          Colliding(root, FileAt(b).schema, MergeKinds[i]) = {}

C8_TargetPrefixWins ==
    MergeAttempted =>
        /\ \A key \in Keys(last.before.prefixes) :
              /\ contains_key(merged.prefixes, key)
              /\ get(merged.prefixes, key) = get(last.before.prefixes, key)
        /\ \A key \in Keys(last.source[1].prefixes) \ Keys(last.before.prefixes) :
              /\ contains_key(merged.prefixes, key)
              /\ get(merged.prefixes, key) = get(last.source[1].prefixes, key)
        /\ Keys(merged.prefixes) =
              Keys(last.before.prefixes) \cup Keys(last.source[1].prefixes)
        /\ Len(merged.prefixes) = Cardinality(Keys(merged.prefixes))
        /\ (\A i \in 1..Len(MergeKinds) :
               Colliding(last.before, last.source[1], MergeKinds[i]) = {})
              => last.outcome = "merged"

\* the import redefines a prefix of the target and brings a new one
C8_Witness ==
    /\ last.outcome = "merged"
    /\ \E key \in Keys(last.before.prefixes) \cap Keys(last.source[1].prefixes) :
          get(last.before.prefixes, key) # get(last.source[1].prefixes, key)
    /\ Keys(last.source[1].prefixes) \ Keys(last.before.prefixes) # {}

\* the custom pattern settings of a schema (none when settings is None)
SettingsOf(schema) == IF schema.settings = None THEN <<>> ELSE schema.settings[1]

(* C9: after a successful call the merged settings hold every pattern      *)
(* setting of the imported schemas that the importer does not declare, and *)
(* the importer's value under every key the importer declares.             *)
C9_SettingsMerged ==
    Succeeded =>
        /\ \A key \in Keys(SettingsOf(root)) :
              /\ contains_key(SettingsOf(result.schema[1]), key)
              /\ get(SettingsOf(result.schema[1]), key) = get(SettingsOf(root), key)
        /\ \A r \in Range(root.imports) :
              \A key \in Keys(SettingsOf(FileAt(r).schema)) \ Keys(SettingsOf(root)) :
                 contains_key(SettingsOf(result.schema[1]), key)

(* C10: import resolution never changes the metadata of the root: id,      *)
(* name, title, description, version, license, default_prefix and          *)
(* default_range of the schema under construction and of the result equal  *)
(* the root's.                                                             *)
C10_MetadataKept ==
    /\ \A f \in MetaFields : merged[f] = root[f]
    /\ Succeeded => \A f \in MetaFields : result.schema[1][f] = root[f]

\* a success of a root without optional metadata over an import that has it
C10_Witness ==
    /\ Succeeded
    /\ last.outcome = "merged"
    /\ root.description = None
    /\ last.source[1].description # None
    /\ last.source[1].id # root.id

----------------------------------------------------------------------------
(* Failure and order of resolve_imports_async *)

\* the import cannot be loaded
Unloadable(r) == FileAt(r).kind # "schema"

\* the import loads and redeclares a name of the root
CollidesWithRoot(r) ==
    /\ FileAt(r).kind = "schema"
    /\ \E i \in 1..Len(MergeKinds) :
          Colliding(root, FileAt(r).schema, MergeKinds[i]) # {}

C11_OnlyAnError ==
    ((\/ last.outcome \in {"load_failed", "collision"}
      \/ /\ Finished
         /\ \E r \in Range(root.imports) : Unloadable(r) \/ CollidesWithRoot(r))
     => /\ Failed
        /\ result.schema = None
        /\ result.error # None)

(* C11: when loading or merging an import fails the call returns an error  *)
(* and no schema, whatever was merged into the clone before, and the       *)
(* schema the caller passed in is never changed.                           *)
C11_FailureLeavesNoSchema ==
    /\ []C11_OnlyAnError
    /\ [][root' = root]_vars

\* a merge that failed after the clone had already taken entries
C11_Witness ==
    /\ Failed
    /\ last.outcome = "collision"
    /\ merged # root
    /\ result.schema = None

\* the references of an import list in order, each once
RECURSIVE FirstOccurrences(_)
FirstOccurrences(il) ==
    IF il = <<>> THEN <<>>
    ELSE LET front == FirstOccurrences(SubSeq(il, 1, Len(il) - 1))
         IN  IF il[Len(il)] \in Range(front) THEN front
             ELSE Append(front, il[Len(il)])

\* the root's entries of a kind followed by those of the listed imports
RECURSIVE EntriesInOrder(_, _)
EntriesInOrder(refs, kind) ==
    IF refs = <<>> THEN root[kind]
    ELSE EntriesInOrder(SubSeq(refs, 1, Len(refs) - 1), kind)
            \o FileAt(refs[Len(refs)]).schema[kind]

(* C14: after a successful call each merged declaration map holds the      *)
(* root's entries in source order, then the entries of each import in the  *)
(* order the imports are listed, each import's in its own source order;    *)
(* a second call on the same inputs gives the same order.                  *)
C14_DeclarationOrder ==
    Succeeded =>
        \A i \in 1..Len(MergeKinds) :
            result.schema[1][MergeKinds[i]] =
                EntriesInOrder(FirstOccurrences(root.imports), MergeKinds[i])

\* the second success over a root with entries and two imports with entries
C14_Witness ==
    /\ Succeeded
    /\ calls = 2
    /\ \E i \in 1..Len(MergeKinds) :
          /\ root[MergeKinds[i]] # <<>>
          /\ Len(FirstOccurrences(root.imports)) = 2
          /\ \A r \in Range(root.imports) : FileAt(r).schema[MergeKinds[i]] # <<>>

----------------------------------------------------------------------------
(* The synchronous ImportResolver::resolve_imports *)

\* Ok(schema.clone()): nothing is loaded and nothing is merged
resolve_imports ==
    /\ pc = "idle"
    /\ result' = Ok(root)
    /\ last' = Step("sync", "", root, None)
    /\ pc' = "done"
    /\ UNCHANGED <<inst_vars, task_vars, call_vars, files, root, cache, merged, visited,
                   todo, depth, calls>>

SyncNext == resolve_imports

SyncSpec == Init /\ [][SyncNext]_vars

(* C15: the synchronous resolve_imports returns an error when an import of *)
(* the schema cannot be resolved, and otherwise a schema that holds the    *)
(* declarations of the schema's imports.                                   *)
C15_SyncResolvesImports ==
    (pc = "done" /\ last.outcome = "sync") =>
        IF \E r \in Range(root.imports) : Unloadable(r)
        THEN result.tag = "Err"
        ELSE /\ result.tag = "Ok"
             /\ \A r \in Range(root.imports) :
                   \A i \in 1..Len(MergeKinds) :
                      \A e \in Entries(FileAt(r).schema[MergeKinds[i]]) :
                         contains_key(result.schema[1][MergeKinds[i]], e.k)

----------------------------------------------------------------------------
(* The instance resolver (service/src/validator/instance_resolver.rs)      *)
(*                                                                         *)
(* An import reference is a string "prefix:base/suffix", kept here as its  *)
(* three parts (prefix "" when the string has no colon, suffix the part    *)
(* after the last slash).  A path under schema_base_dir is                 *)
(* <<base, extension>>.  An instance document is the sequence of its       *)
(* instances, each a record of its fields.                                 *)

Ref(prefix, base, suffix) ==
    [prefix |-> prefix, base |-> base, suffix |-> suffix]

Slot(range_type, range, range_properties) ==
    [range_type |-> range_type, range |-> range,
     range_properties |-> range_properties]

Unreadable == [kind |-> "unreadable"]
InstanceFile(instances) == [kind |-> "instances", instances |-> instances]

IFileAt(path) == IF path \in DOMAIN ifiles THEN ifiles[path] ELSE Missing

\* Path::exists
exists(path) == IFileAt(path).kind # "missing"

\* resolve_instance_path: the prefix up to the colon is dropped; a reference
\* that does not end with "/instance" gives None; otherwise base.yaml if it
\* exists, else base.yml if it exists, else None
resolve_instance_path(import) ==
    LET path_part == [base |-> import.base, suffix |-> import.suffix] IN
    IF path_part.suffix # "instance" THEN None
    ELSE LET base_path == path_part.base IN
         IF exists(<<base_path, "yaml">>) THEN Some(<<base_path, "yaml">>)
         ELSE IF exists(<<base_path, "yml">>) THEN Some(<<base_path, "yml">>)
         ELSE None

InstanceConfig(key_field) ==
    [key_field |-> key_field, value_field |-> None, filter |-> None]

InstanceData(values, source) == [values |-> values, source |-> source]

\* the values map of a document: one key per instance, the instance's value
\* of the key field, in document order and without repetition
RECURSIVE KeyedBy(_, _)
KeyedBy(instances, key_field) ==
    IF instances = <<>> THEN <<>>
    ELSE insert(KeyedBy(SubSeq(instances, 1, Len(instances) - 1), key_field),
                instances[Len(instances)][key_field], <<>>)

\* InstanceLoader::load_file: Ok(data) for a readable document, else Err
load_file(path, config) ==
    IF IFileAt(path).kind = "instances"
    THEN [data |-> Some(InstanceData(
                        KeyedBy(IFileAt(path).instances, config.key_field), path)),
          err |-> NoError]
    ELSE [data |-> None, err |-> Some(ParseError(path))]

\* format!("{range_class}::{key_field}")
cache_key(range_class, key_field) == range_class \o "::" \o key_field

\* the loop over schema.imports: the data of the first import that
\* resolves to an instance path and loads (range_class is not consulted); a
\* failed load is logged and the loop goes on; None when the loop ends
RECURSIVE first_loaded(_, _, _)
first_loaded(imports, range_class, key_field) ==
    IF imports = <<>> THEN None
    ELSE LET instance_path == resolve_instance_path(Head(imports)) IN
         IF /\ instance_path # None
            /\ load_file(instance_path[1], InstanceConfig(key_field)).err = NoError
         THEN load_file(instance_path[1], InstanceConfig(key_field)).data
         ELSE first_loaded(Tail(imports), range_class, key_field)

\* the paths handed to loader.load_file by the loop over schema.imports, in
\* order, up to and including the first that loads
RECURSIVE load_attempts(_, _)
load_attempts(imports, key_field) ==
    IF imports = <<>> THEN <<>>
    ELSE LET instance_path == resolve_instance_path(Head(imports)) IN
         IF instance_path = None
         THEN load_attempts(Tail(imports), key_field)
         ELSE IF load_file(instance_path[1], InstanceConfig(key_field)).err = NoError
         THEN <<instance_path[1]>>
         ELSE <<instance_path[1]>> \o load_attempts(Tail(imports), key_field)

\* faulty variant: the cache is not consulted, every call loads
load_instance_for_range_with_field_uncached(c, range_class, key_field, schema) ==
    LET loaded == first_loaded(schema.imports, range_class, key_field) IN
    IF loaded # None
    THEN [data |-> loaded,
          cache |-> cache_insert(c, cache_key(range_class, key_field),
                                 loaded[1]),
          loads |-> load_attempts(schema.imports, key_field)]
    ELSE [data |-> None, cache |-> c,
          loads |-> load_attempts(schema.imports, key_field)]

\* faulty variant: an entry answers only a schema that has imports
load_instance_for_range_with_field_by_schema(c, range_class, key_field, schema) ==
    IF /\ cache_key(range_class, key_field) \in DOMAIN c
       /\ schema.imports # <<>>
    THEN [data |-> Some(c[cache_key(range_class, key_field)]), cache |-> c,
          loads |-> <<>>]
    ELSE load_instance_for_range_with_field_uncached(
             c, range_class, key_field, schema)

\* Returns [data, cache, loads]: Ok(data), the cache as the call leaves it
\* and the paths the call handed to the loader
load_instance_for_range_with_field(c, range_class, key_field, schema) ==
    IF cache_key(range_class, key_field) \in DOMAIN c
    THEN [data |-> Some(c[cache_key(range_class, key_field)]), cache |-> c,
          loads |-> <<>>]
    ELSE LET loaded == first_loaded(schema.imports, range_class, key_field) IN
         IF loaded # None
         THEN [data |-> loaded,
               cache |-> cache_insert(c, cache_key(range_class, key_field),
                                      loaded[1]),
               loads |-> load_attempts(schema.imports, key_field)]
         ELSE [data |-> None, cache |-> c,
               loads |-> load_attempts(schema.imports, key_field)]

\* Ok(value) of the instance resolver's calls
IOk(value) == [tag |-> "Ok", value |-> value]

\* slot.range_properties.first().unwrap_or("id")
property_of(slot) ==
    IF slot.range_properties = <<>> THEN "id" ELSE slot.range_properties[1]

\* values.get(property).cloned().or_else(all keys, None when there are none)
ids_of(instance_data, property) ==
    IF contains_key(instance_data.values, property)
    THEN Some(get(instance_data.values, property))
    ELSE IF instance_data.values = <<>> THEN None
    ELSE Some([i \in 1..Len(instance_data.values) |-> instance_data.values[i].k])

\* faulty variant: the range_type of the slot is not looked at
get_valid_ids_for_slot_any_range_type(c, slot, schema) ==
    IF slot.range = None
    THEN [ret |-> IOk(None), cache |-> c]
    ELSE LET l == load_instance_for_range_with_field(
                      c, slot.range[1], property_of(slot), schema) IN
         IF l.data = None
         THEN [ret |-> IOk(None), cache |-> l.cache]
         ELSE [ret |-> IOk(ids_of(l.data[1], property_of(slot))),
               cache |-> l.cache]

\* Returns [ret, cache]
get_valid_ids_for_slot(c, slot, schema) ==
    IF slot.range_type # Some("instance")
    THEN [ret |-> IOk(None), cache |-> c]
    ELSE IF slot.range = None
    THEN [ret |-> IOk(None), cache |-> c]
    ELSE LET l == load_instance_for_range_with_field(
                      c, slot.range[1], property_of(slot), schema) IN
         IF l.data = None
         THEN [ret |-> IOk(None), cache |-> l.cache]
         ELSE [ret |-> IOk(ids_of(l.data[1], property_of(slot))),
               cache |-> l.cache]

\* Returns [ret, cache]
validate_instance_value(c, value, slot, schema) ==
    LET g == get_valid_ids_for_slot(c, slot, schema) IN
    IF g.ret.value = None
    THEN [ret |-> IOk(TRUE), cache |-> g.cache]
    ELSE [ret |-> IOk(value \in Range(g.ret.value[1])), cache |-> g.cache]

----------------------------------------------------------------------------
(* Calls on one instance resolver for one schema and one slot *)

Call(op, value, before, ret) ==
    [op |-> op, value |-> value, before |-> before, ret |-> ret]

Call_get_valid_ids_for_slot ==
    /\ LET g == get_valid_ids_for_slot(instance_cache, islot, ischema) IN
         /\ instance_cache' = g.cache
         /\ icall' = Call("get_valid_ids_for_slot", "", instance_cache, g.ret)
    /\ UNCHANGED <<import_vars, task_vars, call_vars, ifiles, ischema, islot>>

\* the value "" is written out
EmptyString == "<empty>"
Values == {"US", "XX", EmptyString}

Call_validate_instance_value ==
    /\ \E value \in Values :
         LET v == validate_instance_value(instance_cache, value, islot, ischema) IN
         /\ instance_cache' = v.cache
         /\ icall' = Call("validate_instance_value", value, instance_cache, v.ret)
    /\ UNCHANGED <<import_vars, task_vars, call_vars, ifiles, ischema, islot>>

InstNext ==
    \/ Call_get_valid_ids_for_slot
    \/ Call_validate_instance_value

\* no call of resolve_imports_async
NoImportCall ==
    /\ root = Schema("R", FALSE, <<>>, <<>>, None, NoDecls)
    /\ pc = "idle"
    /\ merged = root
    /\ visited = {}
    /\ todo = <<>>
    /\ depth = 0
    /\ result = Pending
    /\ last = Step("none", "", root, None)
    /\ calls = 0

\* the import resolver is not part of this specification
NoImportResolver ==
    /\ files = <<>>
    /\ cache = <<>>
    /\ NoImportCall

Instance(id, code) == [id |-> id, code |-> code]

\* the documents of class Foo and of class Bar
FooDocuments ==
    {<<>>,
     <<Instance("US", "840")>>,
     <<Instance("US", "840"), Instance("GB", "826"), Instance("FR", "250")>>}
BarDocuments == {<<Instance("XX", "999")>>}

\* what schema_base_dir may hold: Foo.yaml, Foo.yml and Bar.yaml, each
\* absent, unreadable or a document
InstanceFileSystems ==
    {[p \in ps |->
        IF p = <<"Foo", "yaml">> THEN fy
        ELSE IF p = <<"Foo", "yml">> THEN InstanceFile(<<Instance("GB", "826")>>)
        ELSE by] :
        ps \in SUBSET {<<"Foo", "yaml">>, <<"Foo", "yml">>, <<"Bar", "yaml">>},
        fy \in {Unreadable} \cup {InstanceFile(d) : d \in FooDocuments},
        by \in {Unreadable} \cup {InstanceFile(d) : d \in BarDocuments}}

InstanceRefs ==
    {Ref("txp", "Foo", "instance"), Ref("txp", "Bar", "instance"),
     Ref("", "Foo", "instance"), Ref("txp", "Foo", "schema")}

InstanceSchemas ==
    {Schema("S", FALSE, il, <<>>, None, NoDecls) :
        il \in {<<>>} \cup ImportLists(InstanceRefs, MaxImports)}

Slots ==
    {Slot(rt, r, rp) :
        rt \in {None, Some("instance"), Some("class")},
        r \in {None, Some("Foo"), Some("Bar")},
        rp \in {<<>>, <<"code">>}}

InstInit ==
    /\ NoImportResolver
    /\ NoTasks
    /\ NoCall
    /\ ifiles \in InstanceFileSystems
    /\ ischema \in InstanceSchemas
    /\ islot \in Slots
    /\ instance_cache = <<>>
    /\ icall = Call("none", "", <<>>, IOk(None))

InstSpec == InstInit /\ [][InstNext]_vars

----------------------------------------------------------------------------
(* Vocabulary of the instance resolver's properties *)

InstanceBound == islot.range_type = Some("instance") /\ islot.range # None

\* the reference is an instance import whose path names the class
NamesClass(import, class) == import.suffix = "instance" /\ import.base = class

\* the imports of the schema that name the range class of the slot
ReferencedImports ==
    {i \in 1..Len(ischema.imports) : NamesClass(ischema.imports[i], islot.range[1])}

\* the path of the instance document of the slot's range class
ReferencedPath ==
    IF exists(<<islot.range[1], "yaml">>) THEN <<islot.range[1], "yaml">>
    ELSE <<islot.range[1], "yml">>

\* the schema refers to the document of the range class and it can be read
DocumentLoads ==
    /\ ReferencedImports # {}
    /\ IFileAt(ReferencedPath).kind = "instances"

\* the values of the slot's key field over the instances of that document
LegalSet ==
    {inst[property_of(islot)] : inst \in Range(IFileAt(ReferencedPath).instances)}

Called(op) == icall.op = op

(* C16: for a slot whose range_type is not "instance",                     *)
(* get_valid_ids_for_slot returns None and validate_instance_value returns *)
(* true, whatever the value.                                               *)
C16_NotInstanceBound ==
    islot.range_type # Some("instance") =>
        /\ Called("get_valid_ids_for_slot") => icall.ret = IOk(None)
        /\ Called("validate_instance_value") => icall.ret = IOk(TRUE)

\* a value outside the document of the range class passes for a class slot
C16_Witness ==
    /\ Called("validate_instance_value")
    /\ islot.range_type = Some("class")
    /\ islot.range # None
    /\ DocumentLoads
    /\ LegalSet # {}
    /\ icall.value \notin LegalSet
    /\ icall.ret = IOk(TRUE)

(* C17: for an instance-bound slot validate_instance_value returns true    *)
(* exactly for the values of the legal set of the instance document the    *)
(* schema refers to for the slot's range.                                  *)
C17_ValidIffInLegalSet ==
    (Called("validate_instance_value") /\ InstanceBound /\ DocumentLoads)
    => icall.ret = IOk(icall.value \in LegalSet)

(* C18: for an instance-bound slot whose referenced instance document is   *)
(* missing or cannot be read, both calls return an error that names the    *)
(* reference.                                                              *)
C18_MissingDocumentIsAnError ==
    (~Called("none") /\ InstanceBound /\ ReferencedImports # {} /\ ~DocumentLoads)
    => /\ icall.ret.tag = "Err"
       /\ \E i \in ReferencedImports : icall.ret.reference = ischema.imports[i]

(* C19: when the referenced instance document loads with no instances the  *)
(* legal set is empty and validate_instance_value returns false for every  *)
(* value.                                                                  *)
C19_EmptyDocumentRejectsAll ==
    (InstanceBound /\ DocumentLoads /\ LegalSet = {})
    => /\ Called("get_valid_ids_for_slot") => icall.ret = IOk(Some(<<>>))
       /\ Called("validate_instance_value") => icall.ret = IOk(FALSE)

(* C20: the ids returned for a slot with range Foo come from the document  *)
(* of an instance import that names Foo, never from an instance import     *)
(* that names another class.                                               *)
C20_OnlyTheNamedImportAnswers ==
    (Called("get_valid_ids_for_slot") /\ InstanceBound /\ icall.ret.value # None)
    => /\ DocumentLoads
       /\ Range(icall.ret.value[1]) = LegalSet
       /\ LET key == cache_key(islot.range[1], property_of(islot)) IN
            /\ key \in DOMAIN instance_cache
            /\ instance_cache[key].source[1] = islot.range[1]

----------------------------------------------------------------------------
(* Concurrent loads on a shared import resolver and a shared instance      *)
(* resolver.  Each task runs one load_import or one                        *)
(* load_instance_for_range_with_field, split where the code awaits and     *)
(* where it takes a cache lock; a task may be dropped while it awaits.     *)

Tasks == {"t1", "t2"}

Task(kind, at, key, key_field, imports, path, loaded, ret) ==
    [kind |-> kind, at |-> at, key |-> key, key_field |-> key_field,
     imports |-> imports, path |-> path, loaded |-> loaded, ret |-> ret]

IdleTask == Task("none", "idle", <<>>, <<>>, <<>>, None, None, "pending")

\* the task's future has returned Ok(Some(..)), Ok(None) or Err(..)
Returned(task, loaded, ret) ==
    [task EXCEPT !.at = "done", !.loaded = loaded, !.ret = ret]

conc_frame ==
    <<files, ifiles, root, pc, merged, visited, todo, depth, result, last,
      calls, ischema, islot, icall, input, output, effects>>

ConcImportRefs == {"a", "b"}

\* faulty variant: the entry is reserved in the cache before the file is read
LoadImport_Start_reserve ==
    /\ \E t \in Tasks, import \in ConcImportRefs :
         /\ tasks[t].at = "idle"
         /\ LET task == [IdleTask EXCEPT !.kind = "import", !.key = import] IN
            IF import \in DOMAIN cache
            THEN /\ tasks' = [tasks EXCEPT ![t] = Returned(task, Some(cache[import]), "ok")]
                 /\ cache' = cache
            ELSE LET f == find_import_file(import) IN
                 IF f.err # NoError
                 THEN /\ tasks' = [tasks EXCEPT ![t] = Returned(task, None, "err")]
                      /\ cache' = cache
                 ELSE /\ tasks' = [tasks EXCEPT ![t] =
                                      [task EXCEPT !.at = "load", !.path = f.path]]
                      /\ cache' = cache_insert(cache, import,
                                      Schema(import, FALSE, <<>>, <<>>, None, NoDecls))
    /\ UNCHANGED <<conc_frame, instance_cache, parsed>>

\* load_import up to its await: the cache is read under the read lock, then
\* find_import_file looks for the file
LoadImport_Start ==
    /\ \E t \in Tasks, import \in ConcImportRefs :
         /\ tasks[t].at = "idle"
         /\ LET task == [IdleTask EXCEPT !.kind = "import", !.key = import] IN
            IF import \in DOMAIN cache
            THEN tasks' = [tasks EXCEPT ![t] = Returned(task, Some(cache[import]), "ok")]
            ELSE LET f == find_import_file(import) IN
                 IF f.err # NoError
                 THEN tasks' = [tasks EXCEPT ![t] = Returned(task, None, "err")]
                 ELSE tasks' = [tasks EXCEPT ![t] =
                                   [task EXCEPT !.at = "load", !.path = f.path]]
    /\ UNCHANGED <<conc_frame, cache, instance_cache, parsed>>

\* load_schema_file(&path).await? completes
LoadImport_Read ==
    /\ \E t \in Tasks :
         /\ tasks[t].kind = "import" /\ tasks[t].at = "load"
         /\ LET l == load_schema_file(tasks[t].path[1]) IN
            IF l.err # NoError
            THEN /\ tasks' = [tasks EXCEPT ![t] = Returned(tasks[t], None, "err")]
                 /\ parsed' = parsed
            ELSE /\ tasks' = [tasks EXCEPT ![t] =
                                 [tasks[t] EXCEPT !.at = "insert", !.loaded = l.schema]]
                 /\ parsed' = [parsed EXCEPT !.import = @ \cup {tasks[t].key}]
    /\ UNCHANGED <<conc_frame, cache, instance_cache>>

\* cache.insert(import.to_string(), schema.clone()) under the write lock
LoadImport_Insert ==
    /\ \E t \in Tasks :
         /\ tasks[t].kind = "import" /\ tasks[t].at = "insert"
         /\ cache' = cache_insert(cache, tasks[t].key, tasks[t].loaded[1])
         /\ tasks' = [tasks EXCEPT ![t] = Returned(tasks[t], tasks[t].loaded, "ok")]
    /\ UNCHANGED <<conc_frame, instance_cache, parsed>>

ConcKeyFields == {"id"}
ConcInstanceRefs == {Ref("txp", "Foo", "instance"), Ref("txp", "Bar", "instance")}
ConcImportLists == {<<>>} \cup ImportLists(ConcInstanceRefs, MaxImports)

\* load_instance_for_range_with_field up to its loop: the cache lookup
LoadInstance_Start ==
    /\ \E t \in Tasks, range_class \in {"Foo", "Bar"}, key_field \in ConcKeyFields,
          imports \in ConcImportLists :
         /\ tasks[t].at = "idle"
         /\ LET task == [IdleTask EXCEPT !.kind = "instance",
                                         !.key = cache_key(range_class, key_field),
                                         !.key_field = key_field] IN
            IF task.key \in DOMAIN instance_cache
            THEN tasks' = [tasks EXCEPT ![t] =
                              Returned(task, Some(instance_cache[task.key]), "ok")]
            ELSE tasks' = [tasks EXCEPT ![t] =
                              [task EXCEPT !.at = "scan", !.imports = imports]]
    /\ UNCHANGED <<conc_frame, cache, instance_cache, parsed>>

\* one turn of the loop up to load_file: resolve_instance_path of the next
\* import; Ok(None) when the imports are used up
LoadInstance_Scan ==
    /\ \E t \in Tasks :
         /\ tasks[t].kind = "instance" /\ tasks[t].at = "scan"
         /\ IF tasks[t].imports = <<>>
            THEN tasks' = [tasks EXCEPT ![t] = Returned(tasks[t], None, "none")]
            ELSE LET instance_path == resolve_instance_path(Head(tasks[t].imports)) IN
                 IF instance_path = None
                 THEN tasks' = [tasks EXCEPT ![t] =
                                   [tasks[t] EXCEPT !.imports = Tail(@)]]
                 ELSE tasks' = [tasks EXCEPT ![t] =
                                   [tasks[t] EXCEPT !.at = "load",
                                                    !.path = instance_path]]
    /\ UNCHANGED <<conc_frame, cache, instance_cache, parsed>>

\* loader.load_file(&instance_path, &config).await completes: on Err the
\* loop goes on with the next import
LoadInstance_Read ==
    /\ \E t \in Tasks :
         /\ tasks[t].kind = "instance" /\ tasks[t].at = "load"
         /\ LET l == load_file(tasks[t].path[1], InstanceConfig(tasks[t].key_field)) IN
            IF l.err # NoError
            THEN /\ tasks' = [tasks EXCEPT ![t] =
                                 [tasks[t] EXCEPT !.at = "scan", !.imports = Tail(@),
                                                  !.path = None]]
                 /\ parsed' = parsed
            ELSE /\ tasks' = [tasks EXCEPT ![t] =
                                 [tasks[t] EXCEPT !.at = "insert", !.loaded = l.data]]
                 /\ parsed' = [parsed EXCEPT !.instance = @ \cup {tasks[t].key}]
    /\ UNCHANGED <<conc_frame, cache, instance_cache>>

\* self.instance_cache.insert(cache_key, Arc::clone(&instance_data))
LoadInstance_Insert ==
    /\ \E t \in Tasks :
         /\ tasks[t].kind = "instance" /\ tasks[t].at = "insert"
         /\ instance_cache' =
                cache_insert(instance_cache, tasks[t].key, tasks[t].loaded[1])
         /\ tasks' = [tasks EXCEPT ![t] = Returned(tasks[t], tasks[t].loaded, "ok")]
    /\ UNCHANGED <<conc_frame, cache, parsed>>

\* the future is dropped while it awaits the read
Cancel ==
    /\ \E t \in Tasks :
         /\ tasks[t].at = "load"
         /\ tasks' = [tasks EXCEPT ![t] =
                         [tasks[t] EXCEPT !.at = "dropped", !.ret = "cancelled"]]
    /\ UNCHANGED <<conc_frame, cache, instance_cache, parsed>>

ConcNext ==
    \/ LoadImport_Start
    \/ LoadImport_Read
    \/ LoadImport_Insert
    \/ LoadInstance_Start
    \/ LoadInstance_Scan
    \/ LoadInstance_Read
    \/ LoadInstance_Insert
    \/ Cancel

\* search paths that hold a schema or an unparsable file at a, and maybe one at b
ConcFileSystems ==
    {[x \in xs |->
         IF x = "a" THEN fa
         ELSE SchemaFile(Schema("B", TRUE, <<>>, <<>>, None, OwnDecls("B")))] :
        xs \in {{"a"}, {"a", "b"}},
        fa \in {Unparsable,
                SchemaFile(Schema("A", TRUE, <<>>, <<>>, None, OwnDecls("A")))}}

\* Foo.yaml readable or not, Bar.yaml readable
ConcInstanceFileSystems ==
    {[p \in {<<"Foo", "yaml">>, <<"Bar", "yaml">>} |->
         IF p = <<"Foo", "yaml">> THEN fy
         ELSE InstanceFile(<<Instance("XX", "999")>>)] :
        fy \in {Unreadable,
                InstanceFile(<<Instance("US", "840"), Instance("GB", "826")>>)}}

ConcInit ==
    /\ NoImportCall
    /\ NoInstanceCall
    /\ NoCall
    /\ files \in ConcFileSystems
    /\ cache = <<>>
    /\ ifiles \in ConcInstanceFileSystems
    /\ instance_cache = <<>>
    /\ tasks = [t \in Tasks |-> IdleTask]
    /\ parsed = [import |-> {}, instance |-> {}]

ConcSpec == ConcInit /\ [][ConcNext]_vars

----------------------------------------------------------------------------
(* C12: the import cache holds an entry under a reference, and the         *)
(* instance cache under a key, only if a read and parse for it completed   *)
(* successfully, and the entry is what that read gave; each entry was      *)
(* written by a load that returned Ok, so a load that failed or was        *)
(* dropped before completion leaves none.                                  *)
C12_WriteAfterSuccess ==
    /\ \A import \in DOMAIN cache :
          /\ import \in parsed.import
          /\ FileAt(import).kind = "schema"
          /\ cache[import] = FileAt(import).schema
          /\ \E t \in Tasks :
                /\ tasks[t].kind = "import"
                /\ tasks[t].key = import
                /\ tasks[t].ret = "ok"
    /\ \A key \in DOMAIN instance_cache :
          /\ key \in parsed.instance
          /\ \E path \in DOMAIN ifiles, key_field \in ConcKeyFields :
                /\ IFileAt(path).kind = "instances"
                /\ instance_cache[key] =
                       load_file(path, InstanceConfig(key_field)).data[1]
          /\ \E t \in Tasks :
                /\ tasks[t].kind = "instance"
                /\ tasks[t].key = key
                /\ tasks[t].ret = "ok"

\* an import load was dropped while reading and left nothing, beside an
\* instance load that completed and wrote its entry
C12_Witness ==
    \E t1, t2 \in Tasks :
        /\ tasks[t1].kind = "import"
        /\ tasks[t1].ret = "cancelled"
        /\ FileAt(tasks[t1].key).kind = "schema"
        /\ tasks[t1].key \notin DOMAIN cache
        /\ tasks[t2].kind = "instance"
        /\ tasks[t2].ret = "ok"
        /\ tasks[t2].key \in DOMAIN instance_cache

(* C13: once a cache holds an entry under a key, no step of any            *)
(* interleaving of the loads removes it or changes the value stored under  *)
(* that key.                                                               *)
C13_EntriesNeverChange ==
    [][/\ \A import \in DOMAIN cache :
             /\ import \in DOMAIN cache'
             /\ cache'[import] = cache[import]
       /\ \A key \in DOMAIN instance_cache :
             /\ key \in DOMAIN instance_cache'
             /\ instance_cache'[key] = instance_cache[key]]_vars

----------------------------------------------------------------------------
(* C26: after a successful call a subset declared only in an imported      *)
(* schema is present in the subsets of the merged schema.                  *)
C26_SubsetsMerged ==
    Succeeded =>
        \A r \in Range(root.imports) :
            \A e \in Entries(FileAt(r).schema.subsets) :
                ~contains_key(root.subsets, e.k)
                    => contains_key(result.schema[1].subsets, e.k)

\* the place in the root's import list of the import of the last iteration
\* (an iteration that ends the call leaves the import at the head of todo)
Position ==
    IF last.outcome \in {"merged", "skipped"}
    THEN Len(root.imports) - Len(todo)
    ELSE Len(root.imports) - Len(todo) + 1

\* the references listed before that place
ListedBefore == Range(SubSeq(root.imports, 1, Position - 1))

(* C27: within one call an import is loaded and merged only at its first   *)
(* occurrence in the import list; a later occurrence of the same reference *)
(* is skipped, so a reference listed twice is never merged twice and       *)
(* cannot collide with its own declarations.                               *)
C27_LoadedAtMostOnce ==
    /\ last.outcome \in {"merged", "collision", "load_failed"}
          => /\ last.import = root.imports[Position]
             /\ last.import \notin ListedBefore
    /\ last.outcome = "skipped"
          => /\ last.import = root.imports[Position]
             /\ last.import \in ListedBefore

\* a success over a list that names an import with declarations twice
C27_Witness ==
    /\ Succeeded
    /\ last.outcome = "skipped"
    /\ \E i \in 1..Len(MergeKinds) :
          /\ FileAt(last.import).schema[MergeKinds[i]] # <<>>
          /\ result.schema[1][MergeKinds[i]] =
                 root[MergeKinds[i]] \o FileAt(last.import).schema[MergeKinds[i]]

----------------------------------------------------------------------------
(* Lookups, one after the other, on one instance resolver: each call of    *)
(* load_instance_for_range_with_field names a class, a key field and a     *)
(* schema of its own.                                                      *)

Lookup(range_class, key_field, schema, before, ret, loads) ==
    [op |-> "load_instance_for_range_with_field", range_class |-> range_class,
     key_field |-> key_field, schema |-> schema, before |-> before,
     ret |-> ret, loads |-> loads]

LookupClasses == {"Foo", "Bar"}
LookupKeyFields == {"id", "code"}
LookupSchemas ==
    {Schema("S", FALSE, il, <<>>, None, NoDecls) : il \in ConcImportLists}

Call_load_instance_for_range_with_field ==
    /\ \E range_class \in LookupClasses, key_field \in LookupKeyFields,
          schema \in LookupSchemas :
         LET l == load_instance_for_range_with_field(
                      instance_cache, range_class, key_field, schema) IN
         /\ instance_cache' = l.cache
         /\ icall' = Lookup(range_class, key_field, schema, instance_cache,
                            IOk(l.data), l.loads)
    /\ UNCHANGED <<import_vars, task_vars, call_vars, ifiles, ischema, islot>>

LookupNext == Call_load_instance_for_range_with_field

LookupInit ==
    /\ NoImportResolver
    /\ NoTasks
    /\ NoCall
    /\ ifiles \in InstanceFileSystems
    /\ ischema = <<>>
    /\ islot = <<>>
    /\ instance_cache = <<>>
    /\ icall = Call("none", "", <<>>, IOk(None))

LookupSpec == LookupInit /\ [][LookupNext]_vars

\* the last call was a lookup for a pair whose entry the cache already held
Hit ==
    /\ Called("load_instance_for_range_with_field")
    /\ cache_key(icall.range_class, icall.key_field) \in DOMAIN icall.before

C21_HitReturnsTheEntry ==
    Hit => /\ icall.ret =
                IOk(Some(icall.before[cache_key(icall.range_class,
                                                icall.key_field)]))
           /\ icall.loads = <<>>
           /\ instance_cache = icall.before

(* C21: once the data of a (range_class, key_field) pair is in a           *)
(* resolver's cache, every later lookup for the pair returns that data and *)
(* hands nothing to the loader, and no lookup removes or replaces an entry *)
(* of the cache.                                                           *)
C21_LoadedOnce ==
    /\ []C21_HitReturnsTheEntry
    /\ [][\A key \in DOMAIN instance_cache :
             /\ key \in DOMAIN instance_cache'
             /\ instance_cache'[key] = instance_cache[key]]_vars

\* a second lookup for a pair, with the schema that loaded it, gave the entry
C21_Witness ==
    /\ Hit
    /\ icall.schema.imports # <<>>
    /\ first_loaded(icall.schema.imports, icall.range_class, icall.key_field)
           = icall.ret.value
    /\ icall.ret.value[1].values # <<>>

(* C28: an entry of the cache answers every call for its (range_class,     *)
(* key_field) pair whatever the schema argument: the call returns the      *)
(* entry, leaves the cache as it is and hands nothing to the loader.       *)
C28_HitIgnoresTheSchema ==
    \A range_class \in LookupClasses, key_field \in LookupKeyFields :
        cache_key(range_class, key_field) \in DOMAIN instance_cache
            => \A schema \in LookupSchemas :
                  load_instance_for_range_with_field(
                      instance_cache, range_class, key_field, schema)
                  = [data |-> Some(instance_cache[cache_key(range_class,
                                                            key_field)]),
                     cache |-> instance_cache,
                     loads |-> <<>>]

\* a pair answered from the cache for a schema without imports, although a
\* schema's own imports would have loaded another document
C28_Witness ==
    /\ Hit
    /\ icall.schema.imports = <<>>
    /\ icall.ret.value # None
    /\ \E schema \in LookupSchemas :
          LET loaded == first_loaded(schema.imports, icall.range_class,
                                     icall.key_field) IN
          /\ loaded # None
          /\ loaded # icall.ret.value

----------------------------------------------------------------------------
(* Span::merge.  The spans are those of a source whose lines are LineWidth *)
(* bytes long: a span starts at a byte offset and carries the line and the *)
(* column of that offset, both counted from 1.                             *)

MaxOffset == 5
LineWidth == 3

Span(start, end, line, column) ==
    [start |-> start, end |-> end, line |-> line, column |-> column]

\* pest's Position::line_col of a byte offset
line_col(offset) ==
    [line |-> (offset \div LineWidth) + 1, column |-> (offset % LineWidth) + 1]

\* Span::new(span.start(), span.end(), line, column) of create_spanned
SpanAt(start, end) ==
    Span(start, end, line_col(start).line, line_col(start).column)

min(a, b) == IF a <= b THEN a ELSE b
max(a, b) == IF a >= b THEN a ELSE b

merge(self, other) ==
    Span(min(self.start, other.start), max(self.end, other.end),
         min(self.line, other.line), min(self.column, other.column))

\* no resolver and no task is part of the specifications below
NoResolvers ==
    /\ NoImportResolver
    /\ NoInstanceResolver
    /\ NoTasks

Spans ==
    {span \in {SpanAt(start, end) : start \in 0..MaxOffset, end \in 0..MaxOffset} :
        span.start <= span.end}

Span_merge ==
    /\ output = <<>>
    /\ output' = Some(merge(input[1], input[2]))
    /\ UNCHANGED <<import_vars, inst_vars, task_vars, input, effects>>

MergeNext == Span_merge

MergeInit ==
    /\ NoResolvers
    /\ input \in Spans \X Spans
    /\ output = <<>>
    /\ effects = <<>>

MergeSpec == MergeInit /\ [][MergeNext]_vars

\* (line, column) of a is not after (line, column) of b
NotAfter(a, b) == a.line < b.line \/ (a.line = b.line /\ a.column <= b.column)

Earliest(a, b) == IF NotAfter(a, b) THEN a ELSE b

(* C22: Span::merge(a, b) has the smaller start, the larger end, and the   *)
(* line and column of the input whose (line, column) pair is the           *)
(* lexicographically smaller.                                              *)
C22_MergeIsEarliestPosition ==
    output # <<>> =>
        /\ output[1].start = min(input[1].start, input[2].start)
        /\ output[1].end = max(input[1].end, input[2].end)
        /\ output[1].line = Earliest(input[1], input[2]).line
        /\ output[1].column = Earliest(input[1], input[2]).column

----------------------------------------------------------------------------
(* to_snake_case.  A string is the sequence of its characters.             *)

MaxLength == 4

Alphabet == {"I", "S", "e", "3"}

\* char::is_uppercase
is_uppercase(ch) == ch \in {"I", "S"}

\* ch.to_lowercase().next().unwrap()
to_lowercase(ch) ==
    IF ch = "I" THEN "i" ELSE IF ch = "S" THEN "s" ELSE ch

\* the for loop of to_snake_case over s.chars().enumerate(), from the i-th
\* character on (i counts from 1 here, from 0 in the source)
RECURSIVE to_snake_case_from(_, _)
to_snake_case_from(s, i) ==
    IF i > Len(s) THEN <<>>
    ELSE (IF is_uppercase(s[i]) /\ i > 1 THEN <<"_">> ELSE <<>>)
            \o <<to_lowercase(s[i])>>
            \o to_snake_case_from(s, i + 1)

to_snake_case(s) == to_snake_case_from(s, 1)

Strings == UNION {[1..n -> Alphabet] : n \in 0..MaxLength}

Call_to_snake_case ==
    /\ output = <<>>
    /\ output' = Some(to_snake_case(input))
    /\ UNCHANGED <<import_vars, inst_vars, task_vars, input, effects>>

SnakeNext == Call_to_snake_case

SnakeInit ==
    /\ NoResolvers
    /\ input \in Strings
    /\ output = <<>>
    /\ effects = <<>>

SnakeSpec == SnakeInit /\ [][SnakeNext]_vars

\* an uppercase character that follows a character that is not uppercase
Boundary(s, i) == i > 1 /\ is_uppercase(s[i]) /\ ~is_uppercase(s[i - 1])

RECURSIVE RunsKeptTogether(_, _)
RunsKeptTogether(s, i) ==
    IF i > Len(s) THEN <<>>
    ELSE (IF Boundary(s, i) THEN <<"_">> ELSE <<>>)
            \o <<to_lowercase(s[i])>>
            \o RunsKeptTogether(s, i + 1)

(* C30: to_snake_case lowercases every character and puts an underscore    *)
(* only before an uppercase character that follows a character that is not *)
(* uppercase, never before the first character, so a run of capitals stays *)
(* together.                                                               *)
C30_RunsOfCapitalsKept ==
    output # <<>> => output[1] = RunsKeptTogether(input, 1)

----------------------------------------------------------------------------
(* LinkMLValidationRequestHandlerImpl::handle.  The input of a delivery is *)
(* the event, what the validation service answers and whether the event    *)
(* bus accepts the publish; the effects are the handler's calls on the     *)
(* service and on the event bus, in order.                                 *)

MaxErrors == 2

LinkMLValidationRequest(ontology_id, correlation_id) ==
    [type |-> "LinkMLValidationRequest", ontology_id |-> ontology_id,
     correlation_id |-> correlation_id]

\* an event of another type
OtherEvent == [type |-> "OntologyCreated"]

\* Ok((valid, errs)) and Err(e) of validate_linkml_schema
ServiceOk(valid, errs) == [tag |-> "Ok", valid |-> valid, errs |-> errs]
ServiceErr(e) == [tag |-> "Err", e |-> e]

\* LinkMLValidationResult::success and ::failure
success(ontology_id, correlation_id, validator) ==
    [kind |-> "success", ontology_id |-> ontology_id, errors |-> <<>>,
     correlation_id |-> correlation_id, validator |-> validator]
failure(ontology_id, errors, correlation_id, validator) ==
    [kind |-> "failure", ontology_id |-> ontology_id, errors |-> errors,
     correlation_id |-> correlation_id, validator |-> validator]

ServiceCall(ontology_id) ==
    [call |-> "validate_linkml_schema", ontology_id |-> ontology_id]
Publish(topic, event) == [call |-> "publish", topic |-> topic, event |-> event]

\* (schema_valid, errors) of the match on the service's answer
schema_valid(response) == response.tag = "Ok" /\ response.valid
errors(response) ==
    IF response.tag = "Ok" THEN response.errs
    ELSE <<"Validation error: " \o response.e>>

\* faulty variant: the error list is not looked at
validation_result_valid_only(request, response) ==
    IF schema_valid(response)
    THEN success(request.ontology_id, request.correlation_id, "linkml-service")
    ELSE failure(request.ontology_id, errors(response),
                 request.correlation_id, "linkml-service")

validation_result(request, response) ==
    IF schema_valid(response) /\ errors(response) = <<>>
    THEN success(request.ontology_id, request.correlation_id, "linkml-service")
    ELSE failure(request.ontology_id, errors(response),
                 request.correlation_id, "linkml-service")

\* the calls of one handle(event), in order
handle(event, response) ==
    IF event.type = "LinkMLValidationRequest"
    THEN <<ServiceCall(event.ontology_id),
           Publish("ontology.linkml.validation.result",
                   validation_result(event, response))>>
    ELSE <<>>

Events ==
    {LinkMLValidationRequest(o, c) : o \in {"onto1", "onto2"}, c \in {"c1", "c2"}}
        \cup {OtherEvent}

ErrorLists == UNION {[1..n -> {"e1", "e2"}] : n \in 0..MaxErrors}

Responses ==
    {ServiceOk(valid, errs) : valid \in BOOLEAN, errs \in ErrorLists}
        \cup {ServiceErr(e) : e \in {"timeout"}}

\* one delivery: the publish result is dropped (let _ =) and handle returns
\* Ok(()) whatever happened
Deliver ==
    /\ \E event \in Events, response \in Responses, published \in BOOLEAN :
         /\ input' = [event |-> event, response |-> response,
                      published |-> published]
         /\ effects' = handle(event, response)
         /\ output' = Some("Ok")
    /\ UNCHANGED <<import_vars, inst_vars, task_vars>>

HandlerNext == Deliver

HandlerInit ==
    /\ NoResolvers
    /\ NoCall

HandlerSpec == HandlerInit /\ [][HandlerNext]_vars

Delivered == output # <<>>

ServiceCalls == {i \in 1..Len(effects) : effects[i].call = "validate_linkml_schema"}
Publishes == {i \in 1..Len(effects) : effects[i].call = "publish"}

(* C29: for a LinkMLValidationRequest the handler calls the validation     *)
(* service once and publishes once, on ontology.linkml.validation.result,  *)
(* a result with the request's ontology id and correlation id that is a    *)
(* success exactly when the service returned Ok with valid = true and no   *)
(* errors and a failure otherwise; an event of another type is not         *)
(* answered.                                                               *)
C29_OneResultPerRequest ==
    Delivered =>
        IF input.event.type = "LinkMLValidationRequest"
        THEN /\ Cardinality(ServiceCalls) = 1
             /\ Cardinality(Publishes) = 1
             /\ \A i \in ServiceCalls :
                   effects[i].ontology_id = input.event.ontology_id
             /\ \A i \in Publishes :
                   /\ effects[i].topic = "ontology.linkml.validation.result"
                   /\ effects[i].event.ontology_id = input.event.ontology_id
                   /\ effects[i].event.correlation_id = input.event.correlation_id
                   /\ effects[i].event.kind \in {"success", "failure"}
                   /\ effects[i].event.kind = "success"
                         <=> /\ input.response.tag = "Ok"
                             /\ input.response.valid
                             /\ input.response.errs = <<>>
        ELSE Publishes = {}

\* the service said valid but listed an error, a failure was published and
\* the bus refused it
C29_Witness ==
    /\ Delivered
    /\ input.event.type = "LinkMLValidationRequest"
    /\ input.response.tag = "Ok"
    /\ input.response.valid
    /\ input.response.errs # <<>>
    /\ ~input.published
    /\ \E i \in Publishes : effects[i].event.kind = "failure"

----------------------------------------------------------------------------
(* LinkMLParser::parse_classes.  The input is the classes section of a     *)
(* source: its class definitions, each a name on a line of its own         *)
(* followed by one line per field.  The parse tree gives one               *)
(* class_definition pair per class, whose inner pairs are the identifier   *)
(* of the name and then the field pairs, each holding the pair of its      *)
(* value; a pair carries its rule, its text and its span.                  *)

MaxClasses == 2
MaxFields == 2

Spanned(value, span) == [value |-> value, span |-> span]

Pair(rule, str, span, inner) ==
    [rule |-> rule, str |-> str, span |-> span, inner |-> inner]

ClassNames == {"A", "B"}
ClassFieldRules == {"class_description", "class_is_a", "class_abstract"}

\* the rule of the value of a field
ValueRule(rule) ==
    IF rule = "class_description" THEN "string_value"
    ELSE IF rule = "class_is_a" THEN "identifier"
    ELSE "boolean"

ClassSource(name, fields) == [name |-> name, fields |-> fields]

ClassSources ==
    {ClassSource(name, fields) :
        name \in ClassNames,
        fields \in UNION {[1..n -> ClassFieldRules] : n \in 0..MaxFields}}

ClassSections == UNION {[1..n -> ClassSources] : n \in 0..MaxClasses}

\* the class_definition pair of a class whose name starts at byte `start`
ClassDefinitionPair(class, start) ==
    Pair("class_definition", class.name,
         SpanAt(start, start + (1 + Len(class.fields)) * LineWidth),
         <<Pair("identifier", class.name, SpanAt(start, start + 1), <<>>)>>
            \o [k \in 1..Len(class.fields) |->
                  Pair(class.fields[k], "v",
                       SpanAt(start + k * LineWidth, start + (k + 1) * LineWidth),
                       <<Pair(ValueRule(class.fields[k]), "v",
                              SpanAt(start + k * LineWidth + 1,
                                     start + (k + 1) * LineWidth),
                              <<>>)>>)])

\* the inner pairs of the schema_classes pair of a section that starts at
\* byte `start`
RECURSIVE ClassDefinitionPairs(_, _)
ClassDefinitionPairs(section, start) ==
    IF section = <<>> THEN <<>>
    ELSE <<ClassDefinitionPair(Head(section), start)>>
            \o ClassDefinitionPairs(
                   Tail(section),
                   start + (1 + Len(Head(section).fields)) * LineWidth)

create_spanned(pair, value) == Spanned(value, pair.span)

ClassAst(name) ==
    [name |-> name, description |-> None, is_a |-> None, abstract_ |-> None]

\* the last inner pair of one of the rules, if any
RECURSIVE LastOfRule(_, _)
LastOfRule(inner, rules) ==
    IF inner = <<>> THEN None
    ELSE IF inner[Len(inner)].rule \in rules THEN Some(inner[Len(inner)])
    ELSE LastOfRule(SubSeq(inner, 1, Len(inner) - 1), rules)

process_class_field(class, pair) ==
    IF pair.rule = "class_description"
    THEN LET inner == LastOfRule(pair.inner, {"string_value", "block_string"}) IN
         IF inner = None THEN class
         ELSE [class EXCEPT !.description =
                                Some(create_spanned(inner[1], inner[1].str))]
    ELSE IF pair.rule = "class_is_a"
    THEN LET inner == LastOfRule(pair.inner, {"identifier"}) IN
         IF inner = None THEN class
         ELSE [class EXCEPT !.is_a = Some(create_spanned(inner[1], inner[1].str))]
    ELSE IF pair.rule = "class_abstract"
    THEN LET inner == LastOfRule(pair.inner, {"boolean"}) IN
         IF inner = None THEN class
         ELSE [class EXCEPT !.abstract_ =
                                Some(create_spanned(inner[1], inner[1].str = "true"))]
    ELSE class

\* for field in parts { process_class_field(&mut class_ast, field)? }
RECURSIVE process_class_fields(_, _)
process_class_fields(class, parts) ==
    IF parts = <<>> THEN class
    ELSE process_class_fields(process_class_field(class, Head(parts)), Tail(parts))

\* the loop of parse_classes over the inner pairs, into the map `classes`
RECURSIVE parse_class_definitions(_, _)
parse_class_definitions(classes, pairs) ==
    IF pairs = <<>> THEN classes
    ELSE LET inner == Head(pairs) IN
         IF /\ inner.rule = "class_definition"
            /\ inner.inner # <<>>
            /\ Head(inner.inner).rule = "identifier"
         THEN LET name_pair == Head(inner.inner)
                  class_ast == process_class_fields(ClassAst(name_pair.str),
                                                    Tail(inner.inner)) IN
              parse_class_definitions(
                  insert(classes, name_pair.str,
                         create_spanned(name_pair, class_ast)),
                  Tail(pairs))
         ELSE parse_class_definitions(classes, Tail(pairs))

\* Ok(classes): no step of the loop returns an error for these rules
parse_classes(pair) ==
    [tag |-> "Ok", value |-> parse_class_definitions(<<>>, pair.inner)]

SchemaClassesPair(section) ==
    LET pairs == ClassDefinitionPairs(section, 0) IN
    Pair("schema_classes", "classes",
         SpanAt(0, IF pairs = <<>> THEN 0 ELSE pairs[Len(pairs)].span.end),
         pairs)

Call_parse_classes ==
    /\ output = <<>>
    /\ output' = Some(parse_classes(SchemaClassesPair(input)))
    /\ UNCHANGED <<import_vars, inst_vars, task_vars, input, effects>>

ParseNext == Call_parse_classes

ParseInit ==
    /\ NoResolvers
    /\ input \in ClassSections
    /\ output = <<>>
    /\ effects = <<>>

ParseSpec == ParseInit /\ [][ParseNext]_vars

Parsed == output # <<>> /\ output[1].tag = "Ok"

\* the spanned fields stored in a class
SpannedFields(class) ==
    {class[f][1] : f \in {g \in {"description", "is_a", "abstract_"} : class[g] # None}}

Covers(outer, inner) == outer.start <= inner.start /\ inner.end <= outer.end

(* C23: in the classes parsed from a source the span of every entry covers *)
(* the span of every spanned field stored in the entry.                    *)
C23_EntryCoversItsFields ==
    Parsed =>
        \A e \in Entries(output[1].value) :
            \A field \in SpannedFields(e.v.value) :
                Covers(e.v.span, field.span)

\* the same key occurs twice in the section
KeyTwice ==
    \E i, j \in 1..Len(input) : i < j /\ input[i].name = input[j].name

(* C24: parsing a mapping in which the same key occurs twice fails with a  *)
(* parse error; no AST is returned that keeps one of the two entries.      *)
C24_DuplicateKeyIsAnError ==
    (output # <<>> /\ KeyTwice) => output[1].tag = "Err"

----------------------------------------------------------------------------
(* Filesystem accesses of load_import on a resolver whose file system      *)
(* adapter is confined to a root.  A path is the sequence of its           *)
(* components, an absolute path starting with "/"; the input is the import *)
(* reference and the set of files that exist; the effects are the          *)
(* existence probes and reads, in order.                                   *)

SandboxRoot == <<"/", "sandbox">>

\* the resolver's search_paths
search_paths == <<SandboxRoot>>

extensions == <<"yaml", "yml", "json">>

\* PathBuf::join: an absolute argument replaces the base
join(base, path) == IF path # <<>> /\ path[1] = "/" THEN path ELSE base \o path

\* format!("{import}.{ext}")
with_extension(import, ext) ==
    [import EXCEPT ![Len(import)] = @ \o "." \o ext]

\* the file a path names once its .. components are followed
RECURSIVE Resolved(_)
Resolved(path) ==
    IF path = <<>> THEN <<>>
    ELSE LET front == Resolved(SubSeq(path, 1, Len(path) - 1)) IN
         IF path[Len(path)] = ".."
         THEN IF Len(front) > 1 THEN SubSeq(front, 1, Len(front) - 1) ELSE front
         ELSE Append(front, path[Len(path)])

Inside(dir, path) ==
    /\ Len(Resolved(path)) >= Len(dir)
    /\ SubSeq(Resolved(path), 1, Len(dir)) = dir

Probe(path) == [op |-> "exists", path |-> path]
Read(path) == [op |-> "read", path |-> path]

\* a candidate of find_import_file: the path and the extension it ends with
Candidate(path, extension) == [path |-> path, extension |-> extension]

\* the extension an import reference ends with, if any
ImportExtension(import) ==
    IF import[Len(import)] = "a.yaml" THEN Some("yaml") ELSE None

\* the paths find_import_file probes, in order: per search path and per
\* extension, the reference with the extension added and the reference as is
Candidates(import) ==
    [i \in 1..(Len(search_paths) * Len(extensions) * 2) |->
        LET search_path == search_paths[((i - 1) \div (2 * Len(extensions))) + 1]
            ext == extensions[(((i - 1) \div 2) % Len(extensions)) + 1] IN
        IF i % 2 = 1
        THEN Candidate(join(search_path, with_extension(import, ext)), Some(ext))
        ELSE Candidate(join(search_path, import), ImportExtension(import))]

\* Path::exists
path_exists(path, existing) == Resolved(path) \in existing

\* find_import_file from the i-th candidate on: [found, probes]
RECURSIVE find_import_file_from(_, _, _)
find_import_file_from(candidates, i, existing) ==
    IF i > Len(candidates) THEN [found |-> None, probes |-> <<>>]
    ELSE IF path_exists(candidates[i].path, existing)
    THEN [found |-> Some(candidates[i]), probes |-> <<Probe(candidates[i].path)>>]
    ELSE LET rest == find_import_file_from(candidates, i + 1, existing) IN
         [found |-> rest.found,
          probes |-> <<Probe(candidates[i].path)>> \o rest.probes]

\* read_to_string of the adapter confined to SandboxRoot: a path outside the
\* root is rejected without a read
sandboxed_read_to_string(path) ==
    IF Inside(SandboxRoot, path)
    THEN [ret |-> "Ok", accesses |-> <<Read(path)>>]
    ELSE [ret |-> "Err", accesses |-> <<>>]

\* load_import of a reference that is not cached: find_import_file, then
\* load_schema_file, which reads through the adapter when the extension is
\* one of the parsers'
load_import_accesses(import, existing) ==
    LET f == find_import_file_from(Candidates(import), 1, existing) IN
    IF f.found = None THEN [ret |-> "Err", accesses |-> f.probes]
    ELSE IF f.found[1].extension = None
    THEN [ret |-> "Err", accesses |-> f.probes]
    ELSE LET r == sandboxed_read_to_string(f.found[1].path) IN
         [ret |-> r.ret, accesses |-> f.probes \o r.accesses]

SandboxImports ==
    {<<"a">>, <<"a.yaml">>, <<"sub", "a">>, <<"..", "secret">>,
     <<"/", "etc", "secret">>}

SandboxFiles ==
    SUBSET {<<"/", "sandbox", "a.yaml">>, <<"/", "sandbox", "sub", "a.yml">>,
            <<"/", "secret.yaml">>, <<"/", "etc", "secret.json">>}

Call_load_import ==
    /\ output = <<>>
    /\ LET l == load_import_accesses(input.import, input.existing) IN
         /\ output' = Some(l.ret)
         /\ effects' = l.accesses
    /\ UNCHANGED <<import_vars, inst_vars, task_vars, input>>

SandboxNext == Call_load_import

SandboxInit ==
    /\ NoResolvers
    /\ input \in [import : SandboxImports, existing : SandboxFiles]
    /\ output = <<>>
    /\ effects = <<>>

SandboxSpec == SandboxInit /\ [][SandboxNext]_vars

(* C25: with a sandbox root configured every read and every existence      *)
(* probe made while an import is loaded targets a path inside the root; a   *)
(* reference that resolves outside the root is rejected before any access. *)
C25_AccessesInsideTheRoot ==
    \A i \in 1..Len(effects) : Inside(SandboxRoot, effects[i].path)

====
